---- MODULE Spec2Model ----
(***************************************************************************)
(* Discover India: the ranking and retrieval engine of src/app.py.         *)
(*                                                                         *)
(* The catalog df is loaded once and never changes.  Every request runs    *)
(* to completion on its own: one action per engine function or route, and  *)
(* Respond, which hands the result to the caller and leaves the process    *)
(* idle again.                                                             *)
(*                                                                         *)
(* Text is a sequence of one-character strings, so that lower-casing,      *)
(* stripping, substring containment and tokenising are computed.  A row in *)
(* a result is its position in df (pandas carries the index label along).  *)
(* Floating point is fixed point: popularity in 1/10000, idf in 1/100,     *)
(* similarity as 10^6 * cos^2.                                             *)
(***************************************************************************)
EXTENDS Integers, Sequences, FiniteSets

\* ------------------------------------------------------------------ bounds
MaxRows == 3      \* rows of a catalog
MaxN == 4         \* n_recommendations / n_results / max_suggestions
MaxPage == 2      \* page of a feed request
MaxLimit == 2     \* limit of a feed request
\* Huge stands for an integer above the float range (about 1.8 * 10^308, which
\* the model's integers cannot hold): n * 0.6 raises OverflowError from there on.
Huge == 1000

\* ----------------------------------------------------------------- strings
UpperChars == <<"A","B","C","D","E","F","G","H","I","J","K","L","M",
                "N","O","P","Q","R","S","T","U","V","W","X","Y","Z">>
LowerChars == <<"a","b","c","d","e","f","g","h","i","j","k","l","m",
                "n","o","p","q","r","s","t","u","v","w","x","y","z">>

Letters == {UpperChars[i] : i \in 1..26} \cup {LowerChars[i] : i \in 1..26}
Chars == Letters \cup {" ", ",", "_"}

LowerChar ==
    [c \in Chars |->
        IF \E i \in 1..26 : UpperChars[i] = c
        THEN LowerChars[CHOOSE i \in 1..26 : UpperChars[i] = c]
        ELSE c]

\* str.lower()
Lower(s) == [i \in 1..Len(s) |-> LowerChar[s[i]]]

\* str.contains(q, regex=False) / the substring test
Contains(s, q) ==
    \E i \in 0..(Len(s) - Len(q)) : SubSeq(s, i + 1, i + Len(q)) = q

\* str.strip()
RECURSIVE Strip(_)
Strip(s) ==
    IF s = <<>> THEN s
    ELSE IF Head(s) = " " THEN Strip(Tail(s))
    ELSE IF s[Len(s)] = " " THEN Strip(SubSeq(s, 1, Len(s) - 1))
    ELSE s

\* ------------------------------------ the analyzer of TfidfVectorizer
IsWordChar(c) == c \in Letters

\* token_pattern (?u)\b\w\w+\b : the runs of two or more word characters
RECURSIVE Tokenize(_, _, _)
Tokenize(s, i, cur) ==
    LET done == IF Len(cur) >= 2 THEN <<cur>> ELSE <<>>
    IN  IF i > Len(s) THEN done
        ELSE IF IsWordChar(s[i]) THEN Tokenize(s, i + 1, Append(cur, s[i]))
        ELSE done \o Tokenize(s, i + 1, <<>>)

\* stop_words='english': the words of that list the catalogs use
EnglishStopWords == {<<"t","h","e">>, <<"i","t">>, <<"a","l","l">>,
                     <<"o","f">>, <<"a","n","d">>, <<"t","o">>}

\* the analyzer: lower-case, tokenize, drop the stop words
Analyze(text) ==
    SelectSeq(Tokenize(Lower(text), 1, <<>>), LAMBDA t : t \notin EnglishStopWords)

\* ------------------------------------------------------------ the raw data
TajMahal == <<"T","a","j"," ","M","a","h","a","l">>
Agra == <<"A","g","r","a">>
UttarPradesh == <<"U","t","t","a","r"," ","P","r","a","d","e","s","h">>
RedFort == <<"R","e","d"," ","F","o","r","t">>
TheRedFort == <<"T","h","e"," ","R","e","d"," ","F","o","r","t">>
Delhi == <<"D","e","l","h","i">>
GoaBeach == <<"G","o","a"," ","B","e","a","c","h">>
Panaji == <<"P","a","n","a","j","i">>
Goa == <<"G","o","a">>
Oct == <<"O","c","t">>
Nov == <<"N","o","v">>
It == <<"I","t">>
All == <<"A","l","l">>

Raw(name, city, state, best, rating, reviews) ==
    [Name |-> name, City |-> city, State |-> state, BestTime |-> best,
     rating |-> rating, reviews |-> reviews]

\* rating in tenths, reviews in lakhs
RowA == Raw(TajMahal, Agra, UttarPradesh, Oct, 48, 50)
RowB == Raw(RedFort, Delhi, Delhi, Oct, 45, 30)
RowC == Raw(GoaBeach, Panaji, Goa, Nov, 42, 40)
\* the same words as RowB once "the" is dropped, and the same popularity
RowB2 == Raw(TheRedFort, Delhi, Delhi, Oct, 45, 30)
\* another place of the same name
RowB3 == Raw(RedFort, Agra, UttarPradesh, Nov, 40, 2)
\* a row whose text leaves no term: stop words and one-letter words only
RowZ == Raw(It, <<"X">>, <<"Y">>, All, 30, 0)

RawPlaces == {RowB, RowB2, RowB3, RowZ}

RECURSIVE SeqsUpTo(_, _)
SeqsUpTo(S, k) ==
    IF k = 0 THEN {<<>>}
    ELSE LET shorter == SeqsUpTo(S, k - 1)
         IN  shorter \cup {Append(s, x) : s \in shorter, x \in S}

\* what data/places_clean.csv may hold: up to MaxRows of these places in any
\* order, a place possibly more than once, or the three places A, B, C
RawCatalogs == SeqsUpTo(RawPlaces, MaxRows) \cup {<<RowA, RowB, RowC>>}

\* np.log1p, in 1/1000
Log1p(x) ==
    CASE x = 0 -> 0
      [] x = 1 -> 693
      [] x = 2 -> 1099
      [] x = 30 -> 3434
      [] x = 40 -> 3714
      [] x = 50 -> 3932

\* load_data: popularity_score and combined_text of every row.  terms is the
\* analysis of combined_text, which fit_transform(df['combined_text'])
\* recomputes from the unchanged df on every call.
load_data(raw) ==
    [i \in 1..Len(raw) |->
        [Name |-> raw[i].Name, City |-> raw[i].City, State |-> raw[i].State,
         BestTime |-> raw[i].BestTime,
         rating |-> raw[i].rating, reviews |-> raw[i].reviews,
         popularity_score |-> raw[i].rating * Log1p(raw[i].reviews),
         combined_text |-> raw[i].State \o <<" ">> \o raw[i].City \o <<" ">>
                           \o raw[i].Name \o <<" ">> \o raw[i].BestTime,
         terms |-> Analyze(raw[i].State \o <<" ">> \o raw[i].City \o <<" ">>
                           \o raw[i].Name \o <<" ">> \o raw[i].BestTime)]]

ScenarioCatalog == load_data(<<RowA, RowB, RowC>>)

\* the text a caller may send
delhi == <<"d","e","l","h","i">>
DELHI == <<"D","E","L","H","I">>
go == <<"g","o">>
Go == <<"G","o">>
red == <<"r","e","d">>
zz == <<"z","z">>

\* place names asked of content_based_recommendations
NameQueries == {red, TheRedFort, It, go, zz}
\* queries of search_places
SearchQueries == {delhi, DELHI, Delhi, RedFort, It, <<"o","c","t">>, Goa, zz}
\* queries of get_autocomplete_suggestions
SuggestQueries == {go, Go, <<" ","G","o"," ">>, <<"D","e">>, <<"R","e","d">>,
                   <<"r","e","d">> \o <<" ">>, <<"U","t","t","a","r">>, <<"a">>, <<>>}

\* ------------------------------------------------------------------- state
VARIABLES
    df,      \* the catalog
    op,      \* the request being answered, "idle" between requests
    query,   \* its text argument
    n,       \* its count argument
    out,     \* the rows it returns, as positions in df
    rel,     \* search: relevance_score of each returned row
    sugg,    \* autocomplete: the suggestions
    resp,    \* feed: the response
    blend    \* hybrid: content_recs as accumulated over the seeds, and as cut

vars == <<df, op, query, n, out, rel, sugg, resp, blend>>

NoBlend == [similar |-> <<>>, content_recs |-> <<>>]

NoResp == [success |-> TRUE, places |-> <<>>, page |-> 0, has_more |-> FALSE]

\* --------------------------------------------------------------- orderings
\* keys are pairs; a single key k is <<k, 0>>
Greater(a, b) == a[1] > b[1] \/ (a[1] = b[1] /\ a[2] > b[2])

\* a stable sort, descending: items are <<key, element>>, an item goes after
\* every item whose key is not smaller
InsertDesc(sorted, x) ==
    LET p == Cardinality({i \in 1..Len(sorted) : ~Greater(x[1], sorted[i][1])})
    IN  SubSeq(sorted, 1, p) \o <<x>> \o SubSeq(sorted, p + 1, Len(sorted))

RECURSIVE SortItemsDesc(_, _)
SortItemsDesc(items, k) ==
    IF k = 0 THEN <<>> ELSE InsertDesc(SortItemsDesc(items, k - 1), items[k])

\* s ordered by keys descending, equal keys in the order of s
StableSortDesc(s, keys) ==
    LET sorted == SortItemsDesc([i \in 1..Len(s) |-> <<keys[i], s[i]>>], Len(s))
    IN  [i \in 1..Len(s) |-> sorted[i][2]]

\* DataFrame.head(k) for k >= 0
head(s, k) == SubSeq(s, 1, IF k < Len(s) THEN k ELSE Len(s))

\* DataFrame.nlargest(k, 'popularity_score'), keep='first', of the rows s
nlargest_keep_last(s, k) ==
    LET r == [i \in 1..Len(s) |-> s[Len(s) + 1 - i]]
    IN  IF k <= 0 THEN <<>>
        ELSE head(StableSortDesc(r, [i \in 1..Len(r) |-> <<df[r[i]].popularity_score, 0>>]), k)
nlargest(s, k) ==
    IF k <= 0 THEN <<>>
    ELSE head(StableSortDesc(s, [i \in 1..Len(s) |-> <<df[s[i]].popularity_score, 0>>]), k)

AllRows == [i \in 1..Len(df) |-> i]

\* ------------------------------------------------------------ collaborative
collaborative_recommendations(k) == nlargest(AllRows, k)

\* ------------------------------------------------- TfidfVectorizer (sklearn)
RECURSIVE SumOver(_, _)
SumOver(f, S) ==
    IF S = {} THEN 0
    ELSE LET x == CHOOSE y \in S : TRUE
         IN  f[x] + SumOver(f, S \ {x})

\* smooth idf, ln((1 + docs) / (1 + d)) + 1, in 1/100
IdfTable(docs, d) ==
    CASE d = docs -> 100
      [] docs = 2 /\ d = 1 -> 141
      [] docs = 3 /\ d = 1 -> 169
      [] docs = 3 /\ d = 2 -> 129
      [] docs = 4 /\ d = 1 -> 192
      [] docs = 4 /\ d = 2 -> 151
      [] docs = 4 /\ d = 3 -> 122
      [] docs = 5 /\ d = 1 -> 210
      [] docs = 5 /\ d = 2 -> 169
      [] docs = 5 /\ d = 3 -> 141
      [] docs = 5 /\ d = 4 -> 118

\* fit_transform(df['combined_text']), term by term (the catalogs here hold
\* far fewer than max_features = 1000 terms, so none is cut)
TermsOf(i) == {df[i].terms[k] : k \in 1..Len(df[i].terms)}
Vocabulary == UNION {TermsOf(i) : i \in 1..Len(df)}
Tf(i, t) == Cardinality({k \in 1..Len(df[i].terms) : df[i].terms[k] = t})
Idf(t) == IdfTable(Len(df), Cardinality({i \in 1..Len(df) : t \in TermsOf(i)}))
\* tfidf_matrix: tf * idf of every term of every row
TfidfMatrix == [i \in 1..Len(df) |-> [t \in TermsOf(i) |-> Tf(i, t) * Idf(t)]]

Dot(m, i, j) ==
    LET both == (DOMAIN m[i]) \cap (DOMAIN m[j])
    IN  SumOver([t \in both |-> m[i][t] * m[j][t]], both)

\* cosine_similarity(tfidf_matrix, tfidf_matrix)[i][j], as 10^6 * cos^2
\* (the rows are L2-normalised; a row of no terms stays zero and has
\* similarity 0 to every row, itself included)
cosine_sim(m, i, j) ==
    LET ij == Dot(m, i, j)
        ii == Dot(m, i, i)
        jj == Dot(m, j, j)
    IN  IF ii = 0 \/ jj = 0 THEN 0
        ELSE ((1000 * ij) \div ii) * ((1000 * ij) \div jj)

\* ------------------------------------------------------------ content based
\* the rows whose Name contains place_name, case-insensitively
place_mask(place_name) ==
    {i \in 1..Len(df) : Contains(Lower(df[i].Name), Lower(place_name))}

\* idxmax(): the first of them
idxmax(mask) == CHOOSE i \in mask : \A j \in mask : i <= j

\* sim_scores[1:k+1]
DropFirst(sorted, k) ==
    SubSeq(sorted, 2, IF k + 1 < Len(sorted) THEN k + 1 ELSE Len(sorted))

\* line 61: the place is not in the dataset
not_found_popular(k) == nlargest(AllRows, k)
not_found(k) == head(AllRows, k)

content_based_recommendations(place_name, k) ==
    LET mask == place_mask(place_name)
    IN  IF mask = {} THEN not_found(k)
        ELSE IF Vocabulary = {}
        THEN \* ValueError: empty vocabulary, caught at line 79
             head(AllRows, k)
        ELSE LET place_idx == idxmax(mask)
                 tfidf_matrix == TfidfMatrix
                 sim_scores ==
                     StableSortDesc(AllRows,
                         [i \in 1..Len(df) |-> <<cosine_sim(tfidf_matrix, place_idx, i), 0>>])
             IN  DropFirst(sim_scores, k)

\* ------------------------------------------------------------------ hybrid
\* the entries of s at the positions keep, in order
KeepAt(s, keep) ==
    [k \in 1..Cardinality(keep) |->
        s[CHOOSE i \in keep : Cardinality({j \in keep : j <= i}) = k]]

\* DataFrame.drop_duplicates(): the first of the rows equal in every column
drop_duplicates(s) ==
    KeepAt(s, {i \in 1..Len(s) : \A j \in 1..(i - 1) : df[s[j]] # df[s[i]]})

\* DataFrame.drop_duplicates(subset=['Name']): the first row of every Name
drop_duplicates_Name(s) ==
    KeepAt(s, {i \in 1..Len(s) : \A j \in 1..(i - 1) : df[s[j]].Name # df[s[i]].Name})

\* pd.concat of the frames appended to content_recs: one per seed, in seed
\* order, the empty ones left out
RECURSIVE ConcatSimilar(_, _)
ConcatSimilar(top_places, i) ==
    IF i > Len(top_places) THEN <<>>
    ELSE content_based_recommendations(df[top_places[i]].Name, 2)
         \o ConcatSimilar(top_places, i + 1)

\* int(n_recommendations * 0.6)
CollabCount(k) == (k * 6) \div 10

\* lines 97-108: the frames of content_recs, concatenated
accumulated_content == ConcatSimilar(nlargest(AllRows, 10), 1)

\* lines 110-114: content_recs without duplicates, cut to content_count
truncated_content(similar, content_count) ==
    IF similar # <<>>
    THEN head(drop_duplicates(similar), content_count)
    ELSE <<>>

hybrid_recommendations(k) ==
    IF k >= Huge
    THEN \* OverflowError at line 92: the fallback of line 129
         collaborative_recommendations(k)
    ELSE LET collab_count == CollabCount(k)
             collab_recs == collaborative_recommendations(collab_count)
             content_count == k - collab_count
             similar == accumulated_content
             content_recs == truncated_content(similar, content_count)
             combined == IF content_recs # <<>>
                         THEN drop_duplicates_Name(collab_recs \o content_recs)
                         ELSE collab_recs
         IN  nlargest(combined, k)

\* ------------------------------------------------------------------ search
\* the four columns of the mask, against the lower-cased query
SearchMask(q) ==
    {i \in 1..Len(df) :
        \/ Contains(Lower(df[i].Name), q)
        \/ Contains(Lower(df[i].City), q)
        \/ Contains(Lower(df[i].State), q)
        \/ Contains(Lower(df[i].BestTime), q)}

Bonus(cond, points) == IF cond THEN points ELSE 0

\* results['relevance_score'] of row i for the lower-cased query
relevance_score_exclusive(i, q) ==
    LET name == Lower(df[i].Name)
        city == Lower(df[i].City)
        state == Lower(df[i].State)
    IN    (IF name = q THEN 10 ELSE Bonus(Contains(name, q), 5))
        + (IF city = q THEN 8 ELSE Bonus(Contains(city, q), 3))
        + (IF state = q THEN 6 ELSE Bonus(Contains(state, q), 2))
relevance_score_no_state(i, q) ==
    LET name == Lower(df[i].Name)
        city == Lower(df[i].City)
    IN    Bonus(name = q, 10)
        + Bonus(city = q, 8)
        + Bonus(Contains(name, q), 5)
        + Bonus(Contains(city, q), 3)
relevance_score(i, q) ==
    LET name == Lower(df[i].Name)
        city == Lower(df[i].City)
        state == Lower(df[i].State)
    IN    Bonus(name = q, 10)
        + Bonus(city = q, 8)
        + Bonus(state = q, 6)
        + Bonus(Contains(name, q), 5)
        + Bonus(Contains(city, q), 3)
        + Bonus(Contains(state, q), 2)

\* query = query.lower()
lower_query_kept(text) == text
lower_query(text) == Lower(text)

search_places(text, k) ==
    LET q == lower_query(text)
        results == KeepAt(AllRows, SearchMask(q))
    IN  IF results = <<>> THEN <<>>
        ELSE head(StableSortDesc(results,
                      [i \in 1..Len(results) |->
                          <<relevance_score(results[i], q),
                            df[results[i]].popularity_score>>]), k)

\* ------------------------------------------------------------ autocomplete
Suggestion(type, text, location, rating, score) ==
    [type |-> type, text |-> text, location |-> location, rating |-> rating,
     relevance_score |-> score]

CommaSpace == <<",", " ">>
StateLiteral == <<"S","t","a","t","e">>

name_suggestion(i) ==
    Suggestion("name", df[i].Name, df[i].City \o CommaSpace \o df[i].State,
               df[i].rating, 100)
city_suggestion(i) ==
    Suggestion("city", df[i].City, df[i].State, df[i].rating, 50)
state_suggestion(i) ==
    Suggestion("state", df[i].State, StateLiteral, df[i].rating, 25)

\* the rows whose column contains the query, case as given
name_matches(q) == KeepAt(AllRows, {i \in 1..Len(df) : Contains(df[i].Name, q)})
city_matches(q) == KeepAt(AllRows, {i \in 1..Len(df) : Contains(df[i].City, q)})
state_matches_any_case(q) ==
    KeepAt(AllRows, {i \in 1..Len(df) : Contains(Lower(df[i].State), Lower(q))})
state_matches(q) == KeepAt(AllRows, {i \in 1..Len(df) : Contains(df[i].State, q)})

TypeText(type) ==
    CASE type = "name" -> <<"n","a","m","e">>
      [] type = "city" -> <<"c","i","t","y">>
      [] type = "state" -> <<"s","t","a","t","e">>

\* f"{suggestion['type']}_{suggestion['text']}"
SuggestionKey(sg) == TypeText(sg.type) \o <<"_">> \o sg.text

\* lines 217-223: the first suggestion of every key
unique_last(suggestions) ==
    KeepAt(suggestions,
        {i \in 1..Len(suggestions) : \A j \in (i + 1)..Len(suggestions) :
            SuggestionKey(suggestions[j]) # SuggestionKey(suggestions[i])})
unique(suggestions) ==
    KeepAt(suggestions,
        {i \in 1..Len(suggestions) : \A j \in 1..(i - 1) :
            SuggestionKey(suggestions[j]) # SuggestionKey(suggestions[i])})

get_autocomplete_suggestions(text, max_suggestions) ==
    IF text = <<>> \/ Len(Strip(text)) < 2 THEN <<>>
    ELSE LET q == Strip(text)
             nm == name_matches(q)
             cm == city_matches(q)
             sm == state_matches(q)
             suggestions ==
                 [i \in 1..Len(nm) |-> name_suggestion(nm[i])]
                 \o [i \in 1..Len(cm) |-> city_suggestion(cm[i])]
                 \o [i \in 1..Len(sm) |-> state_suggestion(sm[i])]
             unique_suggestions == unique(suggestions)
             sorted ==
                 StableSortDesc(unique_suggestions,
                     [i \in 1..Len(unique_suggestions) |->
                         <<unique_suggestions[i].relevance_score, 0>>])
         IN  head(sorted, max_suggestions)

\* -------------------------------------------------------------------- feed
\* one entry of places
Place(i) ==
    [name |-> df[i].Name,
     location |-> df[i].City \o CommaSpace \o df[i].State,
     rating |-> df[i].rating,
     reviews |-> df[i].reviews,
     best_time |-> df[i].BestTime,
     popularity_score |-> df[i].popularity_score]

\* recommendations.iloc[offset:offset + limit]
iloc_from_start(s, from, to) == SubSeq(s, 1, IF to - from < Len(s) THEN to - from ELSE Len(s))
iloc(s, from, to) == SubSeq(s, from + 1, IF to < Len(s) THEN to ELSE Len(s))

feed(page, limit) ==
    LET offset == (page - 1) * limit
        hybrid == hybrid_recommendations(limit + offset)
        recommendations == IF hybrid = <<>>
                           THEN collaborative_recommendations(limit + offset)
                           ELSE hybrid
        page_results == iloc(recommendations, offset, offset + limit)
        places == [i \in 1..Len(page_results) |-> Place(page_results[i])]
    IN  [success |-> TRUE, places |-> places, page |-> page,
         has_more |-> Len(places) = limit]

Init ==
    /\ df \in {load_data(raw) : raw \in RawCatalogs}
    /\ op = "idle"
    /\ query = <<>>
    /\ n = 0
    /\ out = <<>>
    /\ rel = <<>>
    /\ sugg = <<>>
    /\ resp = NoResp
    /\ blend = NoBlend

Collaborative ==
    /\ op = "idle"
    /\ \E k \in 0..MaxN :
        /\ op' = "collaborative"
        /\ n' = k
        /\ out' = collaborative_recommendations(k)
    /\ UNCHANGED <<df, query, rel, sugg, resp, blend>>

Respond ==
    /\ op # "idle"
    /\ op' = "idle"
    /\ query' = <<>>
    /\ n' = 0
    /\ out' = <<>>
    /\ rel' = <<>>
    /\ sugg' = <<>>
    /\ resp' = NoResp
    /\ blend' = NoBlend
    /\ UNCHANGED df

ContentBased ==
    /\ op = "idle"
    /\ \E q \in NameQueries, k \in 0..MaxN :
        /\ op' = "content"
        /\ query' = q
        /\ n' = k
        /\ out' = content_based_recommendations(q, k)
    /\ UNCHANGED <<df, rel, sugg, resp, blend>>

Hybrid ==
    /\ op = "idle"
    /\ \E k \in (0..MaxN) \cup {Huge} :
        /\ op' = "hybrid"
        /\ n' = k
        /\ out' = hybrid_recommendations(k)
        /\ blend' = IF k >= Huge THEN NoBlend
                     ELSE [similar |-> accumulated_content,
                           content_recs |-> truncated_content(accumulated_content,
                                                              k - CollabCount(k))]
    /\ UNCHANGED <<df, query, rel, sugg, resp>>

Search ==
    /\ op = "idle"
    /\ \E q \in SearchQueries, k \in 0..MaxN :
        /\ op' = "search"
        /\ query' = q
        /\ n' = k
        /\ LET results == search_places(q, k)
           IN  /\ out' = results
               /\ rel' = [i \in 1..Len(results) |->
                             relevance_score(results[i], lower_query(q))]
    /\ UNCHANGED <<df, sugg, resp, blend>>

Autocomplete ==
    /\ op = "idle"
    /\ \E q \in SuggestQueries, k \in 0..MaxN :
        /\ op' = "autocomplete"
        /\ query' = q
        /\ n' = k
        /\ sugg' = get_autocomplete_suggestions(q, k)
    /\ UNCHANGED <<df, out, rel, resp, blend>>

Feed ==
    /\ op = "idle"
    /\ \E page \in 1..MaxPage, limit \in 1..MaxLimit :
        /\ op' = "feed"
        /\ n' = limit
        /\ resp' = feed(page, limit)
    /\ UNCHANGED <<df, query, out, rel, sugg, blend>>

Next ==
    \/ ContentBased
    \/ Collaborative
    \/ Hybrid
    \/ Search
    \/ Autocomplete
    \/ Feed
    \/ Respond

Spec == Init /\ [][Next]_vars

\* ================================================================= claims
Range(s) == {s[i] : i \in 1..Len(s)}
Min(a, b) == IF a < b THEN a ELSE b
Pop(r) == df[r].popularity_score
NoRepeat(s) == \A i, j \in 1..Len(s) : i # j => s[i] # s[j]

\* C1: hybrid_recommendations(n) returns no two rows of equal Name, on every
\* path (blend, empty content results, popularity-only fallback).
C1_NoEqualNames ==
    op = "hybrid" =>
        \A i, j \in 1..Len(out) : i # j => df[out[i]].Name # df[out[j]].Name

\* C2: when the place name resolves to a row, content_based_recommendations
\* never returns that row.
C2_NeverItself ==
    (op = "content" /\ place_mask(query) # {}) =>
        idxmax(place_mask(query)) \notin Range(out)

\* C3: when no Name contains the place name, content_based_recommendations
\* returns the first min(n, N) rows of the catalog in catalog order.
C3_NotFoundHead ==
    (op = "content" /\ \A i \in 1..Len(df) : ~Contains(Lower(df[i].Name), Lower(query))) =>
        out = [i \in 1..Min(n, Len(df)) |-> i]

C3_Witness ==
    /\ op = "content"
    /\ \A i \in 1..Len(df) : ~Contains(Lower(df[i].Name), Lower(query))
    /\ n = 2 /\ Len(df) = 3
    /\ Pop(3) > Pop(1)
    /\ out = <<1, 2>>

\* C4: collaborative_recommendations(n) returns min(n, N) distinct rows, the
\* highest by popularity_score, in non-increasing order of it; rows of equal
\* score are in ascending catalog order, and a row left out never has a
\* higher score than a returned row, nor an equal score and an earlier position.
C4_TopByPopularity ==
    op = "collaborative" =>
        /\ Len(out) = Min(n, Len(df))
        /\ Range(out) \subseteq 1..Len(df)
        /\ NoRepeat(out)
        /\ \A i, j \in 1..Len(out) : i < j =>
              \/ Pop(out[i]) > Pop(out[j])
              \/ (Pop(out[i]) = Pop(out[j]) /\ out[i] < out[j])
        /\ \A i \in 1..Len(out) : \A r \in (1..Len(df)) \ Range(out) :
              \/ Pop(out[i]) > Pop(r)
              \/ (Pop(out[i]) = Pop(r) /\ out[i] < r)

C4_Witness ==
    /\ op = "collaborative"
    /\ Len(out) >= 2
    /\ Pop(out[1]) = Pop(out[2])
    /\ \E r \in (1..Len(df)) \ Range(out) : Pop(r) = Pop(out[1])

\* C5: search_places is case-insensitive: queries equal after lower-casing
\* return the same rows in the same order.
C5_CaseInsensitive ==
    op = "search" =>
        \A q2 \in SearchQueries :
            Lower(q2) = Lower(query) => search_places(q2, n) = out

C5_Witness ==
    /\ op = "search"
    /\ query = DELHI
    /\ Len(out) >= 2

\* C6: search_places(query, n) returns the first n of exactly the rows one of
\* whose Name, City, State, Best Time contains the lower-cased query, ordered
\* by relevance_score descending, then popularity_score descending, then
\* catalog order; relevance_score is the sum of the bonuses that apply.
ClaimQualifies(r, q) ==
    \/ Contains(Lower(df[r].Name), q)
    \/ Contains(Lower(df[r].City), q)
    \/ Contains(Lower(df[r].State), q)
    \/ Contains(Lower(df[r].BestTime), q)

ClaimRelevance(r, q) ==
      (IF Lower(df[r].Name) = q THEN 10 ELSE 0)
    + (IF Lower(df[r].City) = q THEN 8 ELSE 0)
    + (IF Lower(df[r].State) = q THEN 6 ELSE 0)
    + (IF Contains(Lower(df[r].Name), q) THEN 5 ELSE 0)
    + (IF Contains(Lower(df[r].City), q) THEN 3 ELSE 0)
    + (IF Contains(Lower(df[r].State), q) THEN 2 ELSE 0)

ClaimBefore(a, b, q) ==
    \/ ClaimRelevance(a, q) > ClaimRelevance(b, q)
    \/ /\ ClaimRelevance(a, q) = ClaimRelevance(b, q)
       /\ \/ Pop(a) > Pop(b)
          \/ (Pop(a) = Pop(b) /\ a < b)

C6_SearchRanking ==
    op = "search" =>
        LET q == Lower(query)
            qualifying == {r \in 1..Len(df) : ClaimQualifies(r, q)}
        IN  /\ Len(out) = Min(n, Cardinality(qualifying))
            /\ Range(out) \subseteq qualifying
            /\ \A i \in 1..Len(out) : rel[i] = ClaimRelevance(out[i], q)
            /\ \A i, j \in 1..Len(out) : i < j => ClaimBefore(out[i], out[j], q)
            /\ \A i \in 1..Len(out) : \A r \in qualifying \ Range(out) :
                  ClaimBefore(out[i], r, q)

\* relevance decides before popularity, and a row found only by its best time
\* is among the results with relevance 0
C6_Witness ==
    /\ op = "search"
    /\ \E i, j \in 1..Len(out) :
          i < j /\ rel[i] > rel[j] /\ Pop(out[i]) < Pop(out[j])

\* C7 as claimed: on the catalog A, B, C search("delhi") returns B alone, with
\* relevance_score 11.
C7_RelevanceEleven ==
    (op = "search" /\ df = ScenarioCatalog /\ query = delhi /\ n >= 1) =>
        (out = <<2>> /\ rel = <<11>>)

\* C7 as amended: on the catalog A, B, C search("delhi") returns B alone, with
\* relevance_score 19: exact city 8, exact state 6, partial city 3, partial state 2.
C7_RelevanceNineteen ==
    (op = "search" /\ df = ScenarioCatalog /\ query = delhi /\ n >= 1) =>
        (out = <<2>> /\ rel = <<19>>)

C7_Witness ==
    /\ op = "search" /\ df = ScenarioCatalog /\ query = delhi /\ n >= 1
    /\ df[out[1]].Name = RedFort

\* C8: get_autocomplete_suggestions matches with the case as given: every
\* suggestion's text contains the stripped query in identical case, so a query
\* found only in another case gives no suggestion; on the catalog A, B, C "go"
\* gives nothing and "Go" gives the state suggestion "Goa" with priority 25.
C8_CaseSensitive ==
    (op = "autocomplete" /\ Len(Strip(query)) >= 2) =>
        /\ \A i \in 1..Len(sugg) : Contains(sugg[i].text, Strip(query))
        /\ (\A r \in 1..Len(df) :
                /\ ~Contains(df[r].Name, Strip(query))
                /\ ~Contains(df[r].City, Strip(query))
                /\ ~Contains(df[r].State, Strip(query))) => sugg = <<>>
        /\ (df = ScenarioCatalog /\ query = go) => sugg = <<>>
        /\ (df = ScenarioCatalog /\ query = Go /\ n >= 2) =>
                \E i \in 1..Len(sugg) :
                    /\ sugg[i].type = "state"
                    /\ sugg[i].text = Goa
                    /\ sugg[i].relevance_score = 25

\* the query is in the catalog in another case only, and nothing is suggested
C8_Witness ==
    /\ op = "autocomplete" /\ df = ScenarioCatalog /\ query = go /\ n >= 1
    /\ \E r \in 1..Len(df) : Contains(Lower(df[r].State), Lower(Strip(query)))
    /\ sugg = <<>>

\* C9: the suggestions returned are at most max_suggestions, no two of the same
\* (type, text); each carries the rating of the earliest row in catalog order of
\* that text; they are ordered by priority descending (name 100, city 50,
\* state 25), those of equal priority by the catalog order of their first row.
ClaimField(r, type) ==
    CASE type = "name" -> df[r].Name
      [] type = "city" -> df[r].City
      [] type = "state" -> df[r].State

ClaimPriority(type) ==
    CASE type = "name" -> 100
      [] type = "city" -> 50
      [] type = "state" -> 25

ClaimFirstRow(sg) ==
    CHOOSE r \in 1..Len(df) :
        /\ ClaimField(r, sg.type) = sg.text
        /\ \A r2 \in 1..(r - 1) : ClaimField(r2, sg.type) # sg.text

C9_SuggestionOrder ==
    op = "autocomplete" =>
        /\ Len(sugg) <= n
        /\ \A i, j \in 1..Len(sugg) :
              i # j => <<sugg[i].type, sugg[i].text>> # <<sugg[j].type, sugg[j].text>>
        /\ \A i \in 1..Len(sugg) :
              /\ sugg[i].type \in {"name", "city", "state"}
              /\ sugg[i].relevance_score = ClaimPriority(sugg[i].type)
              /\ \E r \in 1..Len(df) : ClaimField(r, sugg[i].type) = sugg[i].text
              /\ sugg[i].rating = df[ClaimFirstRow(sugg[i])].rating
        /\ \A i, j \in 1..Len(sugg) : i < j =>
              \/ sugg[i].relevance_score > sugg[j].relevance_score
              \/ /\ sugg[i].relevance_score = sugg[j].relevance_score
                 /\ ClaimFirstRow(sugg[i]) < ClaimFirstRow(sugg[j])

\* two rows of one name and different ratings match, then a row of another
\* name: one suggestion for the first name, with the first row's rating, and
\* the other name after it
C9_Witness ==
    /\ op = "autocomplete"
    /\ Len(df) = 3 /\ Len(sugg) = 2
    /\ df[1].Name = df[2].Name /\ df[1].rating # df[2].rating
    /\ sugg[1].type = "name" /\ sugg[1].text = df[1].Name
    /\ sugg[1].rating = df[1].rating
    /\ sugg[2].type = "name" /\ sugg[2].text = df[3].Name

\* C10 as claimed: feed(page, limit) returns as places the entries at positions
\* [(page-1)*limit, page*limit) of hybrid_recommendations(limit*page), and
\* has_more holds exactly when that slice has limit entries.
ClaimSlice(s, page, limit) ==
    [i \in 1..(Min(Len(s), page * limit) - Min(Len(s), (page - 1) * limit)) |->
        Place(s[(page - 1) * limit + i])]

C10_SliceOfHybrid ==
    op = "feed" =>
        LET slice == ClaimSlice(hybrid_recommendations(n * resp.page), resp.page, n)
        IN  /\ resp.places = slice
            /\ resp.has_more = (Len(slice) = n)

\* C10 as amended: the slice is taken of hybrid_recommendations(limit*page),
\* or of collaborative_recommendations(limit*page) when the former is empty.
C10_SliceOfHybridOrTop ==
    op = "feed" =>
        LET hybrid == hybrid_recommendations(n * resp.page)
            slice == ClaimSlice(IF hybrid = <<>>
                                THEN collaborative_recommendations(n * resp.page)
                                ELSE hybrid, resp.page, n)
        IN  /\ resp.places = slice
            /\ resp.has_more = (Len(slice) = n)

\* a second page that is not full
C10_Witness ==
    /\ op = "feed"
    /\ resp.page = 2 /\ n = 2
    /\ Len(resp.places) = 1
    /\ ~resp.has_more

\* C11 as claimed: a seed whose similarity lookup fails (the vectorizer raises
\* on a vocabulary of no terms) is skipped: it adds no rows to the content
\* results, the other seeds add theirs in ranked order, and
\* hybrid_recommendations goes on to blend.
ClaimLookupFails(seed) == \A r \in 1..Len(df) : df[r].terms = <<>>

RECURSIVE ClaimAccumulated(_, _)
ClaimAccumulated(seeds, i) ==
    IF i > Len(seeds) THEN <<>>
    ELSE (IF ClaimLookupFails(seeds[i]) THEN <<>>
          ELSE content_based_recommendations(df[seeds[i]].Name, 2))
         \o ClaimAccumulated(seeds, i + 1)

C11_FailedSeedSkipped ==
    (op = "hybrid" /\ n < Huge) =>
        blend.similar = ClaimAccumulated(collaborative_recommendations(10), 1)

\* C12 as claimed: the accumulated content results are cut to
\* content_count = n - floor(0.6 n) after the first row of every Name is kept,
\* so the cut list has content_count distinct names whenever the accumulated
\* results have that many.
ClaimNames(s) == {df[s[i]].Name : i \in 1..Len(s)}

ClaimFirstOfName(s) ==
    KeepAt(s, {i \in 1..Len(s) : \A j \in 1..(i - 1) : df[s[j]].Name # df[s[i]].Name})

C12_ContentDedupByName ==
    (op = "hybrid" /\ n < Huge) =>
        LET content_count == n - ((6 * n) \div 10)
        IN  /\ blend.content_recs = head(ClaimFirstOfName(blend.similar), content_count)
            /\ Cardinality(ClaimNames(blend.similar)) >= content_count
                  => Cardinality(ClaimNames(blend.content_recs)) = content_count

\* C13 as claimed: on a catalog of pairwise distinct names, the page just
\* served shares no place name with any other page of the same limit.
ClaimPlaceNames(places) == {places[i].name : i \in 1..Len(places)}

C13_PagesDisjoint ==
    (/\ op = "feed"
     /\ \A i, j \in 1..Len(df) : i # j => df[i].Name # df[j].Name) =>
        \A q \in 1..MaxPage :
            q # resp.page =>
                ClaimPlaceNames(feed(q, n).places) \cap ClaimPlaceNames(resp.places) = {}
====
